---- MODULE Spec2Model ----
(***************************************************************************)
(* State-machine model of the MemView / MPointer extension types of        *)
(* SDS/sds_mem_tools (memview_methods.c, mpointer_methods.c).              *)
(*                                                                         *)
(* The heap is a small array of blocks; a MemView is the triple            *)
(* (data, size, type) of the C struct; every handler is one action that    *)
(* runs the whole C function.  Accesses the C standard leaves undefined    *)
(* (null / dangling / out-of-range pointers, the uninitialised             *)
(* result->data of MemView_slicing) are nondeterministic: either the       *)
(* process faults or the access reads an arbitrary byte / is lost.         *)
(***************************************************************************)
EXTENDS Integers, Sequences, FiniteSets, TLC

(* ------------------------------ bounds -------------------------------- *)
NObj      == 4      \* MemView objects that can exist at once
NAddr     == 4      \* heap blocks that can be live at once
MaxGen    == 2      \* nesting depth of derived buffers (xor of xor, ...)
MaxBytes  == 3      \* largest derived buffer built by concat
NHost     == 1      \* MemView objects the host constructs with tp_new

(* ------------------------- program constants -------------------------- *)
NULL         == 0
NO_MEM_TYPE  == 0   \* tp_alloc zero-fills the object: type before assign
STR_MEM_TYPE == 1

Objs  == 1..NObj
Addrs == 1..NAddr
WILD  == NAddr + 1                  \* an address outside the tracked heap
Ptrs  == {NULL} \cup Addrs \cup {WILD}

Garbage  == {0, 165}                \* what an undefined read may return
Shifts   == {0 - 1, 0, 4, 8, 11, 16, 24}
Origins  == {0 - 1, 0, 4, 8}
Offsets  == {0, 4, 8, 12, 16}

\* the strings handed to assign / __init__, as code point sequences:
\* "", "A", U+00FF (two UTF-8 bytes), and one that cannot be encoded
Strings == {<<>>, <<65>>, <<255>>, <<55296>>}
\* further strings the operands of the derivations are constructed from:
\* "B" and "A" U+00FF (three bytes)
OperandStrings == Strings \cup {<<66>>, <<65, 255>>}

Inputs == {[kind |-> "text", cps |-> s] : s \in Strings}
          \cup {[kind |-> "nontext", cps |-> <<>>]}

(* ---------------------------- byte helpers ---------------------------- *)
Pow2(k) == 2 ^ k
ShiftRight(x, k) == x \div Pow2(k)
\* bit k (0 = least significant) of byte x:  (x >> k) & 1
BitAnd1(x, k) == ShiftRight(x, k) % 2
\* x |= (1u << k) on an unsigned char
OrBit(x, k) == IF BitAnd1(x, k) = 1 THEN x ELSE x + Pow2(k)
\* a slip of the operator: x | y
OrByte(x, y) ==
    LET bit(k) == (IF BitAnd1(x, k) + BitAnd1(y, k) > 0 THEN 1 ELSE 0) * Pow2(k)
    IN bit(0) + bit(1) + bit(2) + bit(3) + bit(4) + bit(5) + bit(6) + bit(7)
\* x ^ y on chars
XorByte(x, y) ==
    LET bit(k) == ((BitAnd1(x, k) + BitAnd1(y, k)) % 2) * Pow2(k)
    IN bit(0) + bit(1) + bit(2) + bit(3) + bit(4) + bit(5) + bit(6) + bit(7)

Zeros(n)   == [i \in 1..n |-> 0]
Fill(n, g) == [i \in 1..n |-> g]
AllZero(s) == \A i \in 1..Len(s) : s[i] = 0
Resize(s, n, g) == [i \in 1..n |-> IF i <= Len(s) THEN s[i] ELSE g]

(* --------------------------- UTF-8 codec ------------------------------ *)
IsSurrogate(cp) == cp >= 55296 /\ cp <= 57343
Utf8(cp) ==
    IF cp < 128 THEN <<cp>>
    ELSE IF cp < 2048 THEN <<192 + (cp \div 64), 128 + (cp % 64)>>
    ELSE <<224 + (cp \div 4096), 128 + ((cp \div 64) % 64), 128 + (cp % 64)>>
RECURSIVE EncodeUTF8(_)
EncodeUTF8(cps) ==
    IF cps = <<>> THEN <<>> ELSE Utf8(Head(cps)) \o EncodeUTF8(Tail(cps))
\* PyUnicode_AsUTF8AndSize returns NULL for a string holding a lone surrogate
Encodable(cps) == \A i \in 1..Len(cps) : ~IsSurrogate(cps[i])

IsCont(b) == b >= 128 /\ b <= 191
\* strict UTF-8 decoding of a byte sequence: <<TRUE, code points>> or <<FALSE, <<>>>>
RECURSIVE DecodeFrom(_, _, _)
DecodeFrom(s, i, acc) ==
    IF i > Len(s) THEN <<TRUE, acc>>
    ELSE IF s[i] < 128 THEN DecodeFrom(s, i + 1, Append(acc, s[i]))
    ELSE IF s[i] >= 194 /\ s[i] <= 223 /\ i + 1 <= Len(s) /\ IsCont(s[i + 1])
         THEN DecodeFrom(s, i + 2, Append(acc, (s[i] - 192) * 64 + (s[i + 1] - 128)))
    ELSE IF /\ s[i] >= 224 /\ s[i] <= 239 /\ i + 2 <= Len(s)
            /\ IsCont(s[i + 1]) /\ IsCont(s[i + 2])
            /\ (s[i] = 224 => s[i + 1] >= 160)
            /\ (s[i] = 237 => s[i + 1] <= 159)
         THEN DecodeFrom(s, i + 3, Append(acc, (s[i] - 224) * 4096
                                     + (s[i + 1] - 128) * 64 + (s[i + 2] - 128)))
    ELSE <<FALSE, <<>>>>
DecodeUTF8(s) == DecodeFrom(s, 1, <<>>)

(* ------------------------------- heap --------------------------------- *)
NoBlock == [live |-> FALSE, bytes |-> <<>>]
FreeAddrs(h) == {a \in Addrs : ~h[a].live}
LowestFree(h) == CHOOSE a \in FreeAddrs(h) : \A b \in FreeAddrs(h) : a <= b
IsBlock(h, p) == p \in Addrs /\ h[p].live
\* may byte i of the storage at p be touched?
Valid(h, p, i) == IsBlock(h, p) /\ i >= 0 /\ i < Len(h[p].bytes)
ReadByte(h, p, i, g) == IF Valid(h, p, i) THEN h[p].bytes[i + 1] ELSE g
WriteByte(h, p, i, v) ==
    IF Valid(h, p, i) THEN [h EXCEPT ![p].bytes[i + 1] = v] ELSE h
\* memcpy / memset of a whole sequence to p[0 .. Len(s)-1]
RECURSIVE WriteBytes(_, _, _, _)
WriteBytes(h, p, at, s) ==
    IF s = <<>> THEN h
    ELSE WriteBytes(WriteByte(h, p, at, Head(s)), p, at + 1, Tail(s))
\* the ways a set of accesses <<pointer, index>> can end: "ok", "fault", or
\* "ub" (undefined: it goes on, reading arbitrary bytes, its writes lost);
\* a null dereference always faults
AccessEnds(h, accs) ==
    IF \A a \in accs : Valid(h, a[1], a[2]) THEN {"ok"}
    ELSE IF \E a \in accs : a[1] = NULL THEN {"fault"}
    ELSE {"fault", "ub"}
\* the n bytes at p, an arbitrary byte g where the read is undefined
RdSeq(h, p, n, g) == [i \in 1..n |-> ReadByte(h, p, i - 1, g)]

\* PyMem_RawMalloc: NULL on failure, else a fresh block of n uninitialised bytes
PyMem_RawMalloc(h, n) ==
    {[p |-> NULL, heap |-> h, fault |-> FALSE]} \cup
    (IF FreeAddrs(h) = {} THEN {}
     ELSE {[p |-> LowestFree(h), fault |-> FALSE,
            heap |-> [h EXCEPT ![LowestFree(h)] = [live |-> TRUE, bytes |-> Fill(n, g)]]]
           : g \in Garbage})
\* PyMem_RawCalloc: as malloc, zero-filled
PyMem_RawCalloc(h, n) ==
    {[p |-> NULL, heap |-> h, fault |-> FALSE]} \cup
    (IF FreeAddrs(h) = {} THEN {}
     ELSE {[p |-> LowestFree(h), fault |-> FALSE,
            heap |-> [h EXCEPT ![LowestFree(h)] = [live |-> TRUE, bytes |-> Zeros(n)]]]})
\* PyMem_RawRealloc: NULL on failure (old block kept), else the block resized in
\* place or moved; a pointer that is no live block is undefined behaviour
PyMem_RawRealloc(h, p, n) ==
    IF ~IsBlock(h, p)
    THEN {[p |-> NULL, heap |-> h, fault |-> TRUE]} \cup
         {[p |-> r.p, heap |-> r.heap, fault |-> FALSE] : r \in PyMem_RawMalloc(h, n)}
    ELSE {[p |-> NULL, heap |-> h, fault |-> FALSE]} \cup
         {[p |-> p, fault |-> FALSE,
           heap |-> [h EXCEPT ![p].bytes = Resize(@, n, g)]] : g \in Garbage} \cup
         (IF FreeAddrs(h) = {} THEN {}
          ELSE {[p |-> LowestFree(h), fault |-> FALSE,
                 heap |-> [h EXCEPT ![LowestFree(h)] =
                                        [live |-> TRUE, bytes |-> Resize(h[p].bytes, n, g)],
                                    ![p] = NoBlock]] : g \in Garbage})
\* PyMem_RawFree: releases the block as it is; a pointer that is no live block
\* is undefined behaviour (abort, or nothing visible)
PyMem_RawFree(h, p) ==
    IF IsBlock(h, p) THEN {[heap |-> [h EXCEPT ![p] = NoBlock], fault |-> FALSE]}
    ELSE {[heap |-> h, fault |-> TRUE], [heap |-> h, fault |-> FALSE]}

(* ------------------------------ state --------------------------------- *)
VARIABLES
    mv,        \* MemView objects: the C struct (data, size, type) per slot
    heap,      \* raw storage blocks
    mp,        \* the MPointer object (pointer, size, owner)
    fault,     \* the process has crashed on an undefined access
    last,      \* the call that produced this state, its inputs and outcome
    released,  \* history: MemView_dealloc has freed this object's storage
    origin,    \* history: how a derived buffer was computed
    gen        \* history: nesting depth of a derived buffer

vars == <<mv, heap, mp, fault, last, released, origin, gen>>

NoObj == [alive |-> FALSE, held |-> FALSE, data |-> NULL, size |-> 0,
          type |-> NO_MEM_TYPE]
NoOrigin == [op |-> "", a |-> <<>>, b |-> <<>>]
NoView == [alive |-> FALSE, pointer |-> NULL, off |-> 0, size |-> 0, owner |-> 0]

FreeSlots(m) == {o \in Objs : ~m[o].alive}
LowestSlot(m) == CHOOSE o \in FreeSlots(m) : \A q \in FreeSlots(m) : o <= q
\* objects the host program can call methods on
Callable(o) == mv[o].alive /\ mv[o].held

\* a Text buffer in the sense of the data model: tagged, and data is storage
\* of exactly size bytes that no other object points to
WellFormed(m, h, o) ==
    /\ m[o].alive
    /\ m[o].type = STR_MEM_TYPE
    /\ \/ m[o].size = 0 /\ m[o].data = NULL
       \/ IsBlock(h, m[o].data) /\ Len(h[m[o].data].bytes) = m[o].size
    /\ \A q \in Objs \ {o} : m[q].alive /\ m[q].data # NULL => m[q].data # m[o].data
Content(m, h, o) == IF IsBlock(h, m[o].data) THEN h[m[o].data].bytes ELSE <<>>

\* outcome of running a handler body
Base(m, h) ==
    [mv |-> m, heap |-> h, ok |-> TRUE, err |-> "", fault |-> FALSE, res |-> 0,
     acc |-> {}, freed |-> <<>>, out |-> <<>>]
Err(m, h, e)  == [Base(m, h) EXCEPT !.ok = FALSE, !.err = e]
Fault(m, h)   == [Base(m, h) EXCEPT !.ok = FALSE, !.err = "fault", !.fault = TRUE]
\* PyObject_New returned NULL and the handler dereferences it
NullResult(m, h) == [Fault(m, h) EXCEPT !.err = "null result"]
\* accesses of indices idx by role who on a buffer whose size field is n
Acc(who, idx, n) == {[who |-> who, i |-> i, n |-> n] : i \in idx}

(* --------------------------- MemView_dealloc --------------------------- *)
MemView_dealloc_body(m, h, o) ==
    IF m[o].data # NULL
    THEN {[Base(IF f.fault THEN m ELSE [m EXCEPT ![o].data = NULL, ![o].size = 0], f.heap)
             EXCEPT !.fault = f.fault, !.ok = ~f.fault,
                    !.freed = IF IsBlock(h, m[o].data)
                              THEN <<h[m[o].data].bytes>> ELSE <<>>]
          : f \in PyMem_RawFree(h, m[o].data)}
    ELSE {Base(m, h)}

(* --------------------------- MemView_assign ---------------------------- *)
\* type = STR_MEM_TYPE; memcpy(self->data, str, self->size)
AssignCopy(m, h, o, str) ==
    LET p   == m[o].data
        idx == 0..(m[o].size - 1)
        m2  == [m EXCEPT ![o].type = STR_MEM_TYPE]
    IN {IF e = "fault"
        THEN [Fault(m2, h) EXCEPT !.acc = Acc("self", idx, m[o].size)]
        ELSE [Base(m2, WriteBytes(h, p, 0, str)) EXCEPT !.acc = Acc("self", idx, m[o].size)]
        : e \in AccessEnds(h, {<<p, i>> : i \in idx})}

MemView_assign_body(m, h, o, inp) ==
    IF inp.kind # "text" THEN {Err(m, h, "TypeError")}
    ELSE IF ~Encodable(inp.cps) THEN {Err(m, h, "ValueError")}
    ELSE LET str == EncodeUTF8(inp.cps)
             n   == Len(str)
             m1  == [m EXCEPT ![o].size = n]
         IN IF m[o].size # n
            THEN UNION {IF al.fault THEN {Fault(m1, al.heap)}
                        ELSE IF al.p = NULL
                        THEN {Err([m1 EXCEPT ![o].data = NULL], al.heap, "MemoryError")}
                        ELSE AssignCopy([m1 EXCEPT ![o].data = al.p], al.heap, o, str)
                        : al \in (IF m[o].data = NULL THEN PyMem_RawMalloc(h, n)
                                  ELSE PyMem_RawRealloc(h, m[o].data, n))}
            ELSE AssignCopy(m, h, o, str)

(* ---------------------------- MemView_init ----------------------------- *)
\* dealloc if data is set, then assign; the result of assign is dropped and
\* 0 returned, the exception (if any) stays pending
MemView_init_body(m, h, o, inp) ==
    UNION {IF d.fault THEN {d}
           ELSE {[a EXCEPT !.freed = d.freed] : a \in MemView_assign_body(d.mv, d.heap, o, inp)}
           : d \in MemView_dealloc_body(m, h, o)}

(* ---------------------------- MemView_clear ---------------------------- *)
MemView_clear_body(m, h, o) ==
    IF m[o].data # NULL /\ m[o].size > 0
    THEN LET idx == 0..(m[o].size - 1)
         IN {IF e = "fault" THEN [Fault(m, h) EXCEPT !.acc = Acc("self", idx, m[o].size)]
             ELSE [Base(m, WriteBytes(h, m[o].data, 0, Zeros(m[o].size)))
                     EXCEPT !.acc = Acc("self", idx, m[o].size)]
             : e \in AccessEnds(h, {<<m[o].data, i>> : i \in idx})}
    ELSE {Base(m, h)}

(* ---------------------------- MemView_value ---------------------------- *)
\* PyUnicode_FromStringAndSize(u, size): NULL u gives "" for size 0 and fails
\* otherwise; else the bytes are decoded as UTF-8
PyUnicode_FromStringAndSize(h, p, n, g) ==
    IF p = NULL THEN (IF n = 0 THEN <<TRUE, <<>>>> ELSE <<FALSE, <<>>>>)
    ELSE DecodeUTF8(RdSeq(h, p, n, g))

MemView_value_body(m, h, o) ==
    IF m[o].type # STR_MEM_TYPE THEN {Err(m, h, "TypeError")}
    ELSE LET idx  == IF m[o].data = NULL THEN {} ELSE 0..(m[o].size - 1)
             acc  == Acc("self", idx, m[o].size)
         IN UNION {IF e = "fault" THEN {[Fault(m, h) EXCEPT !.acc = acc]}
                   ELSE {LET str == PyUnicode_FromStringAndSize(h, m[o].data, m[o].size, g)
                         IN IF str[1] THEN [Base(m, h) EXCEPT !.out = str[2], !.acc = acc]
                            ELSE [Err(m, h, "MemoryError") EXCEPT !.acc = acc]
                         : g \in (IF e = "ub" THEN Garbage ELSE {0})}
                   : e \in AccessEnds(h, {<<m[o].data, i>> : i \in idx})}

(* ---------------------------- MemView_bsize ---------------------------- *)
MemView_bsize_body(m, h, o) ==
    IF m[o].type # STR_MEM_TYPE THEN {Err(m, h, "TypeError")}
    ELSE {[Base(m, h) EXCEPT !.out = <<m[o].size>>]}

(* ----------------------- derived buffers: common ----------------------- *)
\* the struct a derivation fills in after PyObject_New
NewObj(p, n) == [alive |-> TRUE, held |-> TRUE, data |-> p, size |-> n,
                 type |-> STR_MEM_TYPE]
\* what casting an object of another type to MemView* can show
Foreign == {[alive |-> TRUE, held |-> TRUE, data |-> WILD, size |-> n, type |-> t]
            : n \in {0, 1}, t \in {NO_MEM_TYPE, STR_MEM_TYPE}}
\* bit numbering of lshift and slicing: byte idx >> 3, bit 7 - (idx & 7)
ByteOf(idx) == ShiftRight(idx, 3)
\* a slip of the numbering: least significant bit first
BitOfLsbFirst(idx) == idx % 8
BitOf(idx)  == 7 - (idx % 8)

(* ----------------------------- MemView_xor ----------------------------- *)
XorLoop(sa, sb, n) == [i \in 1..n |-> XorByte(sa[i], sb[i])]

MemView_xor_body(m, h, s, t) ==
    IF t = 0 THEN {Err(m, h, "TypeError")}
    ELSE IF m[t].type # STR_MEM_TYPE THEN {Err(m, h, "TypeError")}
    ELSE IF m[t].size # m[s].size THEN {Err(m, h, "ValueError")}
    ELSE LET r   == LowestSlot(m)
             n   == m[s].size
             idx == 0..(n - 1)
             acc == Acc("self", idx, n) \cup Acc("other", idx, m[t].size)
                    \cup Acc("res", idx, n)
         IN {NullResult(m, h)} \cup  \* PyObject_New returned NULL, not checked
            UNION {IF al.p = NULL THEN {Err(m, al.heap, "MemoryError")}
                   ELSE UNION {IF e = "fault" THEN {[Fault(m, h) EXCEPT !.acc = acc]}
                               ELSE {[Base([m EXCEPT ![r] = NewObj(al.p, n)],
                                           [al.heap EXCEPT ![al.p].bytes =
                                               XorLoop(RdSeq(h, m[s].data, n, g),
                                                       RdSeq(h, m[t].data, n, g), n)])
                                        EXCEPT !.res = r, !.acc = acc]
                                     : g \in (IF e = "ub" THEN Garbage ELSE {0})}
                               : e \in AccessEnds(h, {<<m[s].data, i>> : i \in idx}
                                                \cup {<<m[t].data, i>> : i \in idx})}
                   : al \in PyMem_RawMalloc(h, n)}

(* ---------------------------- MemView_lshift --------------------------- *)
\* for (i = 0; i < total_bits - shift; ++i) copy source bit i + shift to bit i
RECURSIVE LshiftLoop(_, _, _, _, _)
LshiftLoop(src, dst, i, n, shift) ==
    IF i >= n THEN dst
    ELSE LET src_idx  == i + shift
             bit_val  == BitAnd1(src[ByteOf(src_idx) + 1], BitOf(src_idx))
         IN LshiftLoop(src,
                       IF bit_val = 1
                       THEN [dst EXCEPT ![ByteOf(i) + 1] = OrBit(@, BitOf(i))]
                       ELSE dst,
                       i + 1, n, shift)

MemView_lshift_body(m, h, s, shift) ==
    IF m[s].type # STR_MEM_TYPE THEN {Err(m, h, "TypeError")}
    ELSE IF shift <= 0 THEN {Err(m, h, "ValueError")}
    ELSE LET r          == LowestSlot(m)
             n          == m[s].size
             total_bits == n * 8
         IN {Err(m, h, "MemoryError")} \cup     \* PyObject_New returned NULL
            UNION {IF al.p = NULL THEN {Err(m, al.heap, "MemoryError")}
                   ELSE IF shift >= total_bits
                   THEN {[Base([m EXCEPT ![r] = NewObj(al.p, n)], al.heap) EXCEPT !.res = r]}
                   ELSE LET cnt  == total_bits - shift
                            rd   == {ByteOf(i + shift) : i \in 0..(cnt - 1)}
                            acc  == Acc("self", rd, n)
                                    \cup Acc("res", {ByteOf(i) : i \in 0..(cnt - 1)}, n)
                        IN UNION {IF e = "fault" THEN {[Fault(m, h) EXCEPT !.acc = acc]}
                                  ELSE {[Base([m EXCEPT ![r] = NewObj(al.p, n)],
                                              [al.heap EXCEPT ![al.p].bytes =
                                                  LshiftLoop(RdSeq(h, m[s].data, n, g),
                                                             Zeros(n), 0, cnt, shift)])
                                           EXCEPT !.res = r, !.acc = acc]
                                        : g \in (IF e = "ub" THEN Garbage ELSE {0})}
                                  : e \in AccessEnds(h, {<<m[s].data, i>> : i \in rd})}
                   : al \in PyMem_RawCalloc(h, n)}

(* ---------------------------- MemView_concat --------------------------- *)
\* memcpy(result->data, other->data, self->size);
\* memcpy(result->data + self->size, other->data, other->size)
ConcatCopy(h, sp, op, ssz, osz, g) == RdSeq(h, op, ssz, g) \o RdSeq(h, op, osz, g)

ConcatWith(m, h, s, oth, foreign) ==
    IF oth.type # STR_MEM_TYPE THEN {Err(m, h, "TypeError")}
    ELSE LET r   == LowestSlot(m)
             ssz == m[s].size
             osz == oth.size
             acc == Acc("other", 0..(ssz - 1), osz) \cup Acc("res", 0..(ssz - 1), ssz + osz)
                    \cup Acc("other", 0..(osz - 1), osz)
                    \cup Acc("res", ssz..(ssz + osz - 1), ssz + osz)
         IN {NullResult(m, h)} \cup  \* PyObject_New returned NULL, not checked
            UNION {IF al.p = NULL THEN {Err(m, al.heap, "MemoryError")}
                   ELSE UNION {IF e = "fault" THEN {[Fault(m, h) EXCEPT !.acc = acc]}
                               ELSE {[Base([m EXCEPT ![r] = NewObj(al.p, ssz + osz)],
                                           [al.heap EXCEPT ![al.p].bytes =
                                               ConcatCopy(h, m[s].data, oth.data, ssz, osz, g)])
                                        EXCEPT !.res = r, !.acc = acc,
                                               \* the TypeError set for a foreign operand
                                               \* is still pending on return
                                               !.ok = ~foreign,
                                               !.err = IF foreign THEN "TypeError" ELSE ""]
                                     : g \in (IF e = "ub" THEN Garbage ELSE {0})}
                               : e \in AccessEnds(h, {<<oth.data, i>> : i \in 0..(ssz - 1)}
                                                \cup {<<oth.data, i>> : i \in 0..(osz - 1)})}
                   : al \in PyMem_RawMalloc(h, ssz + osz)}

MemView_concat_body(m, h, s, t) ==
    IF t = 0 THEN UNION {ConcatWith(m, h, s, f, TRUE) : f \in Foreign}
    ELSE ConcatWith(m, h, s, m[t], FALSE)

(* --------------------------- MemView_slicing --------------------------- *)
\* for (i = 0; i < out_bytes; i++): read bit origin + i of src = data + origin,
\* or it into bit i of dst = result->data (never allocated)
RECURSIVE SliceLoop(_, _, _, _, _, _, _, _)
SliceLoop(h, sp, dp, org, i, n, g, wr) ==
    IF i >= n THEN [heap |-> h, wr |-> wr]
    ELSE LET src_idx_bit == org + i
             bit_val == BitAnd1(ReadByte(h, sp, org + ByteOf(src_idx_bit), g),
                                BitOf(src_idx_bit))
         IN IF bit_val = 1
            THEN SliceLoop(WriteByte(h, dp, ByteOf(i),
                                     OrBit(ReadByte(h, dp, ByteOf(i), g), BitOf(i))),
                           sp, dp, org, i + 1, n, g, wr \cup {ByteOf(i)})
            ELSE SliceLoop(h, sp, dp, org, i + 1, n, g, wr)

MemView_slicing_body(m, h, s, org, offset) ==
    IF m[s].type # STR_MEM_TYPE THEN {Err(m, h, "TypeError")}
    ELSE IF org < 0 \/ offset <= 0 THEN {Err(m, h, "ValueError")}
    ELSE IF org + offset > m[s].size * 8 THEN {Err(m, h, "ValueError")}
    ELSE LET r         == LowestSlot(m)
             out_bytes == (offset + 7) \div 8
             rd        == {org + ByteOf(org + i) : i \in 0..(out_bytes - 1)}
         IN {NullResult(m, h)} \cup  \* PyObject_New returned NULL: Py_DECREF(NULL)
            UNION {UNION {LET lp  == SliceLoop(h, m[s].data, dp, org, 0, out_bytes, g, {})
                              acc == Acc("self", rd, m[s].size)
                                     \cup Acc("res", lp.wr, out_bytes)
                          IN {IF e = "fault" THEN [Fault(m, h) EXCEPT !.acc = acc]
                              ELSE [Base([m EXCEPT ![r] = NewObj(dp, out_bytes)], lp.heap)
                                      EXCEPT !.res = r, !.acc = acc]
                              : e \in AccessEnds(h, {<<m[s].data, i>> : i \in rd}
                                               \cup {<<dp, i>> : i \in lp.wr})}
                          : g \in Garbage}
                   : dp \in Ptrs}

(* ------------------------------ MPointer ------------------------------- *)
\* MPointer_value: a fresh copy of size bytes at pointer
MPointer_value_body(v, h) ==
    IF v.pointer = NULL THEN {Err(mv, h, "MemoryError")}
    ELSE LET idx == v.off..(v.off + v.size - 1)
         IN UNION {IF e = "fault" THEN {Fault(mv, h)}
                   ELSE {LET str == DecodeUTF8([i \in 1..v.size |->
                                        ReadByte(h, v.pointer, v.off + i - 1, g)])
                         IN IF str[1] THEN [Base(mv, h) EXCEPT !.out = str[2]]
                            ELSE Err(mv, h, "MemoryError")
                         : g \in (IF e = "ub" THEN Garbage ELSE {0})}
                   : e \in AccessEnds(h, {<<v.pointer, i>> : i \in idx})}

\* the region of a bound view lies in its owner's current storage
ViewInOwner(m, h, v) ==
    /\ m[v.owner].alive
    /\ v.pointer = m[v.owner].data
    /\ IsBlock(h, v.pointer)
    /\ v.off + v.size <= m[v.owner].size
    /\ v.off + v.size <= Len(h[v.pointer].bytes)

\* storage that no object and no view points to any more has leaked; it can
\* never be reached again and is dropped from the heap
Collect(h, m, v) ==
    [a \in Addrs |-> IF (\E o \in Objs : m[o].alive /\ m[o].data = a)
                       \/ (v.alive /\ v.pointer = a)
                    THEN h[a] ELSE NoBlock]

(* --------------------------- the calls (actions) ----------------------- *)
NoLast == [op |-> "", self |-> 0, other |-> 0, res |-> 0, ok |-> TRUE, err |-> "",
           wf |-> FALSE, a |-> <<>>, b |-> <<>>, x |-> 0, y |-> 0, pre |-> NoObj,
           so |-> NoOrigin, acc |-> {}, freed |-> <<>>, out |-> <<>>, rel |-> FALSE]

\* the record of a call op(self, other, x, y) that ended as out
Call(op, s, t, x, y, out) ==
    [op |-> op, self |-> s, other |-> t, res |-> out.res, ok |-> out.ok, err |-> out.err,
     wf |-> WellFormed(mv, heap, s) /\ (t # 0 => WellFormed(mv, heap, t)),
     a |-> Content(mv, heap, s),
     b |-> IF t = 0 THEN <<>> ELSE Content(mv, heap, t),
     x |-> x, y |-> y, pre |-> mv[s], so |-> origin[s], acc |-> out.acc,
     freed |-> out.freed, out |-> out.out, rel |-> released[s]]

Max(x, y) == IF x >= y THEN x ELSE y

Init ==
    /\ mv = [o \in Objs |-> NoObj]
    /\ heap = [a \in Addrs |-> NoBlock]
    /\ mp = NoView
    /\ fault = FALSE
    /\ last = NoLast
    /\ released = [o \in Objs |-> FALSE]
    /\ origin = [o \in Objs |-> NoOrigin]
    /\ gen = [o \in Objs |-> 0]

\* tp_new: a fresh object with data NULL and size 0
Fresh == [NoObj EXCEPT !.alive = TRUE, !.held = TRUE]
MemView_new ==
    /\ ~fault
    /\ FreeSlots(mv) # {}
    /\ Cardinality(Objs \ FreeSlots(mv)) < NHost
    /\ LET o == LowestSlot(mv)
       IN /\ mv' = [mv EXCEPT ![o] = Fresh]
          /\ released' = [released EXCEPT ![o] = FALSE]
          /\ origin' = [origin EXCEPT ![o] = NoOrigin]
          /\ gen' = [gen EXCEPT ![o] = 0]
          /\ last' = [NoLast EXCEPT !.op = "new", !.res = o]
    /\ UNCHANGED <<heap, mp, fault>>

\* a call that changes its receiver in place
Mutate(op, o, out) ==
    /\ mv' = out.mv
    /\ heap' = Collect(out.heap, out.mv, mp)
    /\ fault' = out.fault
    /\ last' = Call(op, o, 0, 0, 0, out)
    /\ released' = [released EXCEPT ![o] = @ \/ (out.freed # <<>>)]
    /\ origin' = [origin EXCEPT ![o] = NoOrigin]
    /\ UNCHANGED <<mp, gen>>

MemView_init(o) ==
    /\ ~fault /\ Callable(o)
    /\ \/ \* PyArg_ParseTupleAndKeywords fails: return -1
          /\ last' = Call("init", o, 0, 0, 0, Err(mv, heap, "TypeError"))
          /\ UNCHANGED <<mv, heap, mp, fault, released, origin, gen>>
       \/ \E inp \in Inputs : \E out \in MemView_init_body(mv, heap, o, inp) :
             Mutate("init", o, out)

\* MemView_assign called with a value object, as MemView_init calls it; through
\* the method table (METH_VARARGS | METH_KEYWORDS) other is the argument tuple,
\* the non-text input
MemView_assign(o) ==
    /\ ~fault /\ Callable(o)
    /\ \E inp \in Inputs : \E out \in MemView_assign_body(mv, heap, o, inp) :
          Mutate("assign", o, out)

MemView_clear(o) ==
    /\ ~fault /\ Callable(o)
    /\ \E out \in MemView_clear_body(mv, heap, o) : Mutate("clear", o, out)

\* a call that only reads its receiver
Query(op, o, out) ==
    /\ fault' = out.fault
    /\ last' = Call(op, o, 0, 0, 0, out)
    /\ UNCHANGED <<mv, heap, mp, released, origin, gen>>

MemView_value(o) ==
    /\ ~fault /\ Callable(o)
    /\ \E out \in MemView_value_body(mv, heap, o) : Query("value", o, out)

MemView_bsize(o) ==
    /\ ~fault /\ Callable(o)
    /\ \E out \in MemView_bsize_body(mv, heap, o) : Query("bsize", o, out)

\* a call that returns a new buffer
Derive(op, s, t, x, y, out) ==
    /\ mv' = out.mv
    /\ heap' = Collect(out.heap, out.mv, mp)
    /\ fault' = out.fault
    /\ last' = Call(op, s, t, x, y, out)
    /\ IF out.res # 0
       THEN /\ released' = [released EXCEPT ![out.res] = FALSE]
            /\ origin' = [origin EXCEPT ![out.res] =
                              [op |-> op, a |-> Content(mv, heap, s),
                               b |-> IF t = 0 THEN <<>> ELSE Content(mv, heap, t)]]
            /\ gen' = [gen EXCEPT ![out.res] =
                              1 + Max(gen[s], IF t = 0 THEN 0 ELSE gen[t])]
       ELSE UNCHANGED <<released, origin, gen>>
    /\ UNCHANGED mp

\* room for one more derived buffer
CanDerive(s, t) ==
    /\ FreeSlots(mv) # {}
    /\ gen[s] < MaxGen
    /\ t # 0 => gen[t] < MaxGen

Operands == {t \in Objs : Callable(t)} \cup {0}

MemView_xor(s) ==
    /\ ~fault /\ Callable(s)
    /\ \E t \in Operands :
          /\ CanDerive(s, t)
          /\ \E out \in MemView_xor_body(mv, heap, s, t) : Derive("xor", s, t, 0, 0, out)

MemView_lshift(s) ==
    /\ ~fault /\ Callable(s) /\ CanDerive(s, 0)
    /\ \E shift \in Shifts : \E out \in MemView_lshift_body(mv, heap, s, shift) :
          Derive("lshift", s, 0, shift, 0, out)

MemView_concat(s) ==
    /\ ~fault /\ Callable(s)
    /\ \E t \in Operands :
          /\ CanDerive(s, t)
          /\ mv[s].size + (IF t = 0 THEN 1 ELSE mv[t].size) <= MaxBytes
          /\ \E out \in MemView_concat_body(mv, heap, s, t) :
                Derive("concat", s, t, 0, 0, out)

MemView_slicing(s) ==
    /\ ~fault /\ Callable(s) /\ CanDerive(s, 0)
    /\ \E org \in Origins, offset \in Offsets :
          \E out \in MemView_slicing_body(mv, heap, s, org, offset) :
             Derive("slicing", s, 0, org, offset, out)

\* tp_dealloc runs when the last reference goes: the object is gone afterwards
Destroy(o, out, v) ==
    /\ mv' = [out.mv EXCEPT ![o] = NoObj]
    /\ heap' = Collect(out.heap, [out.mv EXCEPT ![o] = NoObj], v)
    /\ fault' = out.fault
    /\ last' = Call("dealloc", o, 0, 0, 0, out)
    /\ released' = [released EXCEPT ![o] = FALSE]
    /\ origin' = [origin EXCEPT ![o] = NoOrigin]
    /\ gen' = [gen EXCEPT ![o] = 0]

\* the host drops its reference to a MemView
MemView_dealloc(o) ==
    /\ ~fault /\ Callable(o)
    /\ IF mp.alive /\ mp.owner = o
       THEN \* a view still owns it: only the count goes down
            /\ mv' = [mv EXCEPT ![o].held = FALSE]
            /\ last' = [NoLast EXCEPT !.op = "decref", !.self = o]
            /\ UNCHANGED <<heap, mp, fault, released, origin, gen>>
       ELSE /\ \E out \in MemView_dealloc_body(mv, heap, o) : Destroy(o, out, mp)
            /\ UNCHANGED mp

\* tp_new and tp_init of MPointer: every field NULL / 0
MPointer_init ==
    /\ ~fault
    /\ ~mp.alive
    /\ mp' = [NoView EXCEPT !.alive = TRUE]
    /\ last' = [NoLast EXCEPT !.op = "mp_init"]
    /\ UNCHANGED <<mv, heap, fault, released, origin, gen>>

\* the producer of a bound view: a region of owner's storage plus a counted
\* reference to owner
MPointer_bind(o) ==
    /\ ~fault
    /\ mp.alive /\ mp.owner = 0
    /\ Callable(o) /\ WellFormed(mv, heap, o) /\ mv[o].size > 0
    /\ \E off \in 0..(mv[o].size - 1) : \E n \in 1..(mv[o].size - off) :
          mp' = [alive |-> TRUE, pointer |-> mv[o].data, off |-> off, size |-> n,
                 owner |-> o]
    /\ last' = [NoLast EXCEPT !.op = "mp_bind", !.self = o]
    /\ UNCHANGED <<mv, heap, fault, released, origin, gen>>

MPointer_value ==
    /\ ~fault
    /\ mp.alive
    /\ \E out \in MPointer_value_body(mp, heap) :
          /\ fault' = out.fault
          /\ last' = [NoLast EXCEPT !.op = "mp_value", !.ok = out.ok, !.err = out.err,
                                    !.out = out.out]
    /\ UNCHANGED <<mv, heap, mp, released, origin, gen>>

\* tp_dealloc of MPointer: forget the region, drop the reference to owner
MPointer_dealloc ==
    /\ ~fault
    /\ mp.alive
    /\ mp' = NoView
    /\ IF mp.owner # 0 /\ ~mv[mp.owner].held
       THEN \E out \in MemView_dealloc_body(mv, heap, mp.owner) : Destroy(mp.owner, out, NoView)
       ELSE /\ last' = [NoLast EXCEPT !.op = "mp_dealloc"]
            /\ heap' = Collect(heap, mv, NoView)
            /\ UNCHANGED <<mv, fault, released, origin, gen>>

\* the life of buffers and views: construction, assignment, reading, release
Next ==
    \/ MemView_new
    \/ \E o \in Objs : MemView_init(o)
    \/ \E o \in Objs : MemView_assign(o)
    \/ \E o \in Objs : MemView_clear(o)
    \/ \E o \in Objs : MemView_value(o)
    \/ \E o \in Objs : MemView_bsize(o)
    \/ \E o \in Objs : MemView_dealloc(o)
    \/ MPointer_init
    \/ \E o \in Objs : MPointer_bind(o)
    \/ MPointer_value
    \/ MPointer_dealloc

Spec == Init /\ [][Next]_vars

(* ------------- the derivations as functions of their inputs ------------ *)
\* what assign can put into a buffer
TextContents == {EncodeUTF8(s) : s \in {t \in OperandStrings : Encodable(t)}}
\* a buffer as __init__ leaves it after construction from a string encoded as c,
\* its storage (if any) at address p
Constructed(c, p) == NewObj(IF c = <<>> THEN NULL ELSE p, Len(c))
Stored(c) == IF c = <<>> THEN NoBlock ELSE [live |-> TRUE, bytes |-> c]

\* two constructed Text buffers, a in slot 1 and b in slot 2
InitPair ==
    /\ \E ca \in TextContents, cb \in TextContents :
          /\ mv = [o \in Objs |-> IF o = 1 THEN Constructed(ca, 1)
                                   ELSE IF o = 2 THEN Constructed(cb, 2) ELSE NoObj]
          /\ heap = [a \in Addrs |-> IF a = 1 THEN Stored(ca)
                                      ELSE IF a = 2 THEN Stored(cb) ELSE NoBlock]
    /\ mp = NoView
    /\ fault = FALSE
    /\ last = NoLast
    /\ released = [o \in Objs |-> FALSE]
    /\ origin = [o \in Objs |-> NoOrigin]
    /\ gen = [o \in Objs |-> 0]

\* one constructed Text buffer, a in slot 1, and in slot 2 an object that
\* tp_new made and __init__ never ran on
InitOne ==
    /\ \E ca \in TextContents :
          /\ mv = [o \in Objs |-> IF o = 1 THEN Constructed(ca, 1)
                                   ELSE IF o = 2 THEN Fresh ELSE NoObj]
          /\ heap = [a \in Addrs |-> IF a = 1 THEN Stored(ca) ELSE NoBlock]
    /\ mp = NoView
    /\ fault = FALSE
    /\ last = NoLast
    /\ released = [o \in Objs |-> FALSE]
    /\ origin = [o \in Objs |-> NoOrigin]
    /\ gen = [o \in Objs |-> 0]

NextXor    == \E o \in Objs : MemView_xor(o)
NextLshift == \E o \in Objs : MemView_lshift(o)
NextConcat == \E o \in Objs : MemView_concat(o)
NextSlice  == \E o \in Objs : MemView_slicing(o)

SpecXor    == InitPair /\ [][NextXor]_vars
SpecLshift == InitOne /\ [][NextLshift]_vars
SpecConcat == InitPair /\ [][NextConcat]_vars
SpecSlice  == InitOne /\ [][NextSlice]_vars

(* ============================== claims ================================= *)
\* bit i of a byte string in the documented numbering: bit 0 is the most
\* significant bit of byte 0, continuing across byte boundaries
SpecBit(bytes, i) == (bytes[(i \div 8) + 1] \div (2 ^ (7 - (i % 8)))) % 2
\* the ways a derivation may fail for want of memory
AllocFailures == {"MemoryError", "null result"}
LastRes == Content(mv, heap, last.res)
\* the receiver (and operand) of the last call are as they were before it
OperandsUntouched ==
    /\ mv[last.self] = last.pre
    /\ Content(mv, heap, last.self) = last.a
    /\ last.other # 0 => Content(mv, heap, last.other) = last.b

\* C1: concat(a, b) of two Text buffers is a new buffer of size a.size + b.size
\* holding a's bytes followed by b's bytes.
C1_ConcatIsSelfThenOther ==
    (last.op = "concat" /\ last.wf /\ last.other # 0 /\ last.ok)
    => /\ WellFormed(mv, heap, last.res)
       /\ mv[last.res].size = Len(last.a) + Len(last.b)
       /\ LastRes = last.a \o last.b

\* C2: slice(a, originBit, lengthBits) with originBit >= 0, lengthBits > 0 and
\* originBit + lengthBits <= a.size*8 is a new buffer of ceil(lengthBits/8)
\* bytes whose bit j is bit originBit + j of a, the trailing bits being 0.
C2_SliceExtractsBits ==
    (/\ last.op = "slicing" /\ last.wf /\ last.ok
     /\ last.x >= 0 /\ last.y > 0 /\ last.x + last.y <= 8 * Len(last.a))
    => /\ WellFormed(mv, heap, last.res)
       /\ mv[last.res].size = (last.y + 7) \div 8
       /\ Len(LastRes) = (last.y + 7) \div 8
       /\ \A j \in 0..(8 * Len(LastRes) - 1) :
             SpecBit(LastRes, j) = IF j < last.y THEN SpecBit(last.a, last.x + j) ELSE 0

\* C3: lshift(a, shiftBits) with shiftBits > 0 on a Text buffer fails only for
\* want of memory, and otherwise returns a new buffer of a's size whose bit i
\* is bit i + shiftBits of a where that exists and 0 elsewhere; a is unchanged.
C3_LshiftMovesBitsLeft ==
    (last.op = "lshift" /\ last.wf /\ last.x > 0)
    => /\ OperandsUntouched
       /\ ~last.ok => last.err = "MemoryError" /\ ~fault
       /\ last.ok =>
             /\ WellFormed(mv, heap, last.res)
             /\ last.res # last.self
             /\ Len(LastRes) = Len(last.a)
             /\ \A i \in 0..(8 * Len(last.a) - 1) :
                   SpecBit(LastRes, i) = IF i + last.x < 8 * Len(last.a)
                                         THEN SpecBit(last.a, i + last.x) ELSE 0
\* a shift that crosses a byte boundary and keeps some bits set
C3_Witness ==
    /\ last.op = "lshift" /\ last.wf /\ last.ok
    /\ Len(last.a) >= 2 /\ last.x > 8 /\ last.x % 8 # 0 /\ last.x < 8 * Len(last.a)
    /\ ~AllZero(LastRes)

\* C4: for Text buffers a and b of equal size, xor fails only for want of
\* memory, leaves a and b unchanged, and xor(xor(a, b), b) has a's bytes.
C4_XorIsSelfInverse ==
    (last.op = "xor" /\ last.wf /\ last.other # 0 /\ Len(last.a) = Len(last.b))
    => /\ OperandsUntouched
       /\ ~last.ok => last.err \in AllocFailures
       /\ last.ok =>
             /\ WellFormed(mv, heap, last.res)
             /\ Len(LastRes) = Len(last.a)
             /\ (last.so.op = "xor" /\ last.so.b = last.b) => LastRes = last.so.a
\* the second xor of xor(xor(a, b), b) has returned, a and b differing
C4_Witness ==
    /\ last.op = "xor" /\ last.wf /\ last.ok
    /\ last.so.op = "xor" /\ last.so.b = last.b
    /\ Len(last.so.a) >= 1 /\ last.so.a # last.so.b
    /\ ~AllZero(last.a)
    /\ LastRes = last.so.a

\* C5: an assign that returns an error leaves the receiver's data, size and
\* tag exactly as they were (assign called as the method, or by __init__ on a
\* buffer that holds no storage, where __init__ is that one call).
C5_FailedAssignChangesNothing ==
    (/\ last.op = "assign" \/ (last.op = "init" /\ last.pre.data = NULL)
     /\ last.wf \/ last.pre = Fresh
     /\ ~last.ok /\ ~fault)
    => /\ mv[last.self] = last.pre
       /\ Content(mv, heap, last.self) = last.a

\* C6: whenever a buffer's storage is released, all its bytes are zero at the
\* moment it is freed.
C6_StorageZeroedBeforeFree ==
    last.op \in {"dealloc", "init"}
    => \A k \in 1..Len(last.freed) : AllZero(last.freed[k])

\* C7: once a buffer has been released no later operation on it succeeds, and
\* it never holds storage again.
C7_ReleasedIsTerminal ==
    /\ \A o \in Objs : (mv[o].alive /\ released[o]) => mv[o].data = NULL
    /\ (last.self # 0 /\ last.rel) => ~last.ok

\* C8: while a bound view exists, its region lies inside its owner's current
\* storage.
C8_ViewStaysInsideOwner ==
    (~fault /\ mp.alive /\ mp.owner # 0) => ViewInOwner(mv, heap, mp)

\* C9: every index used to read or write through a buffer's data lies in
\* [0, size) of that buffer.
C9_AccessesInBounds ==
    (last.wf /\ (last.op \in {"xor", "concat"} => last.other # 0))
    => \A a \in last.acc : a.i >= 0 /\ a.i < a.n

\* C10: for every buffer, size == 0 iff data is empty, and a buffer of
\* size > 0 has storage of exactly that size.
DataEmpty(m, h, o) ==
    m[o].data = NULL \/ (IsBlock(h, m[o].data) /\ Len(h[m[o].data].bytes) = 0)
C10_SizeZeroIffNoData ==
    ~fault =>
      \A o \in Objs : mv[o].alive =>
         /\ mv[o].size = 0 <=> DataEmpty(mv, heap, o)
         /\ mv[o].size > 0 => (IsBlock(heap, mv[o].data)
                               /\ Len(heap[mv[o].data].bytes) = mv[o].size)

====
